---------------------------- MODULE Spec2Model ----------------------------
(***************************************************************************)
(* A model of excel.py, the Outlook CTI processor: header-row discovery,   *)
(* keyword classification of columns, per-message aggregation and the      *)
(* merge of the new records into the persisted master workbook.            *)
(*                                                                         *)
(* Text is a sequence of one-character strings, so that lower(), strip(),  *)
(* the substring test `kw in c`, sorted() and "\n".join() are computed the *)
(* way Python computes them.  A missing cell (pandas NaN) is the value NaN. *)
(***************************************************************************)
EXTENDS Integers, Sequences, FiniteSets, TLC

VARIABLES
    pc,          \* position of the running script / of the function under study
    df,          \* the decoded sheet handed to find_header_row
    df_clean,    \* what find_header_row returned
    email_row,   \* the per-message accumulator: category -> list of values
    email_has_data, \* the flag of line 83
    final_row,   \* the finalized record of the message (line 139-143)
    message,     \* the message being processed on its own (attachment loop)
    att_i,       \* 1-based index of the next attachment of `message`
    escaped,     \* an exception left the attachment loop
    start_date, end_date,   \* the dates entered at the prompts
    messages,    \* target_folder.Items after Sort("[ReceivedTime]", True)
    msg_i,       \* 1-based index of the next message of the scan
    visited,     \* indices of the messages the loop body started on
    att_read,    \* indices of the messages whose attachments were read
    new_data,    \* the run's new records, in processing order
    src_of,      \* src_of[j]: index of the message new_data[j] came from
    master,      \* the persisted workbook: Absent, or its rows of cells
    master_before, \* the workbook as it was when the run started
    outcome,     \* how the run ended
    runs         \* number of runs started

vars == <<pc, df, df_clean, email_row, email_has_data, final_row, message,
          att_i, escaped, start_date, end_date, messages, msg_i, visited,
          att_read, new_data, src_of, master, master_before, outcome, runs>>

---------------------------------------------------------------------------
(* Text *)

UpperCase == <<"A","B","C","D","E","F","G","H","I","J","K","L","M",
               "N","O","P","Q","R","S","T","U","V","W","X","Y","Z">>
LowerCase == <<"a","b","c","d","e","f","g","h","i","j","k","l","m",
               "n","o","p","q","r","s","t","u","v","w","x","y","z">>

\* The characters the model uses, in increasing code-point order.
Alphabet == <<"\n", " ", "-", ".", "/", "0", "1", "2", "3", "4", "5", "6",
              "7", "8", "9", ":">>
            \o UpperCase \o <<"_">> \o LowerCase

Whitespace == {"\n", " "}

\* ord(c), up to an order-preserving renumbering
Ord(c) == CHOOSE i \in 1..Len(Alphabet) : Alphabet[i] = c

\* str.lower() on one character
LowerChar(c) ==
    IF \E i \in 1..26 : UpperCase[i] = c
    THEN LowerCase[CHOOSE i \in 1..26 : UpperCase[i] = c]
    ELSE c

\* str.lower()
Lower(s) == [i \in 1..Len(s) |-> LowerChar(s[i])]

\* str.strip(): leading and trailing whitespace removed
Strip(s) ==
    LET keep == {i \in 1..Len(s) : s[i] \notin Whitespace}
    IN  IF keep = {} THEN <<>>
        ELSE LET lo == CHOOSE i \in keep : \A j \in keep : i <= j
                 hi == CHOOSE i \in keep : \A j \in keep : j <= i
             IN  SubSeq(s, lo, hi)

\* `kw in s` for two str
Contains(kw, s) ==
    \E i \in 0..(Len(s) - Len(kw)) : SubSeq(s, i + 1, i + Len(kw)) = kw

\* a < b for two str: the first differing code point decides, a proper
\* prefix is smaller
StrLess(a, b) ==
    \E i \in 1..(Len(a) + 1) :
        /\ i <= Len(b)
        /\ \A j \in 1..(i - 1) : a[j] = b[j]
        /\ (i = Len(a) + 1 \/ Ord(a[i]) < Ord(b[i]))

\* pandas' missing value; no text is equal to it
NaN == <<"NaN">>

\* str(v) of a cell: a text cell is itself, a missing cell reads "nan"
Str(v) == IF v = NaN THEN <<"n","a","n">> ELSE v

\* str(c).lower().strip()  (lines 33, 39, 114)
Normalize(v) == Strip(Lower(Str(v)))

Range(s) == {s[i] : i \in 1..Len(s)}

---------------------------------------------------------------------------
(* Configuration, lines 10-19 *)

Categories == <<"md5", "sha1", "sha256", "ip">>

IOC_SEARCH_TERMS ==
    [md5    |-> << <<"m","d","-","5">>, <<"m","d","5">> >>,
     sha1   |-> << <<"s","h","a","-","1">>, <<"s","h","a","1">> >>,
     sha256 |-> << <<"s","h","a","-","2">>, <<"s","h","a","2","5","6">> >>,
     ip     |-> << <<"i","p"," ","a","d","d","r","e","s","s">>,
                   <<"i","p","_","a","d","d","r","e","s","s">> >>]

\* line 30
all_keywords ==
    UNION {Range(IOC_SEARCH_TERMS[Categories[i]]) : i \in 1..Len(Categories)}

\* df.head(10), line 38
HeadRows == 10

---------------------------------------------------------------------------
(* find_header_row, lines 28-44.  A table is [columns, rows]; data row i of *)
(* pandas (0-based) is rows[i + 1].                                        *)

None == [none |-> TRUE]

HasKeyword(cells) ==
    \E j \in 1..Len(cells) : \E k \in all_keywords : Contains(k, cells[j])

NormalizeAll(cells) == [j \in 1..Len(cells) |-> Normalize(cells[j])]

Min(a, b) == IF a <= b THEN a ELSE b

\* find_header_row without head(10): every row is scanned
find_header_row_unbounded(d) ==
    IF HasKeyword(NormalizeAll(d.columns))
    THEN d
    ELSE LET hits == {i \in 0..(Len(d.rows) - 1) : HasKeyword(NormalizeAll(d.rows[i + 1]))}
         IN  IF hits = {} THEN None
             ELSE LET i == CHOOSE h \in hits : \A g \in hits : h <= g
                  IN  [columns |-> NormalizeAll(d.rows[i + 1]),
                       rows    |-> SubSeq(d.rows, i + 2, Len(d.rows))]

find_header_row(d) ==
    IF HasKeyword(NormalizeAll(d.columns))
    THEN d
    ELSE LET scanned == 0..(Min(HeadRows, Len(d.rows)) - 1)
             hits == {i \in scanned : HasKeyword(NormalizeAll(d.rows[i + 1]))}
         IN  IF hits = {} THEN None
             ELSE LET i == CHOOSE h \in hits : \A g \in hits : h <= g
                  IN  [columns |-> NormalizeAll(d.rows[i + 1]),
                       rows    |-> SubSeq(d.rows, i + 2, Len(d.rows))]

---------------------------------------------------------------------------
(* The body of the sheet loop, lines 108-127.  A running state `st` holds   *)
(* email_row (row), email_has_data (has), file_has_ioc (file) and whether   *)
(* an exception is propagating (raised).                                    *)

\* found_col = None (line 117); no column name is equal to it
NoColumn == <<"None">>

\* lines 117-120: the keywords in order, and for the first one that some
\* column name contains, the first column name (left to right) containing it
found_col(columns, keywords) ==
    LET matching == {k \in 1..Len(keywords) :
                        \E c \in 1..Len(columns) : Contains(keywords[k], columns[c])}
    IN  IF matching = {} THEN NoColumn
        ELSE LET k == CHOOSE x \in matching : \A y \in matching : x <= y
                 c == CHOOSE x \in 1..Len(columns) :
                        /\ Contains(keywords[k], columns[x])
                        /\ \A y \in 1..(x - 1) : ~Contains(keywords[k], columns[y])
             IN  columns[c]

\* Series.dropna().astype(str).tolist() on column c of d
ColumnValues(d, c) ==
    LET cell(i) == d.rows[i][c]
        F[i \in 0..Len(d.rows)] ==
            IF i = 0 THEN <<>>
            ELSE IF cell(i) = NaN THEN F[i - 1] ELSE Append(F[i - 1], Str(cell(i)))
    IN  F[Len(d.rows)]

\* lines 122-127 for one category.  d[name] is a Series only when one column
\* bears the name; with several it is a DataFrame, which has no tolist():
\* line 123 raises AttributeError.
\* the flags raised for every matched column, with or without values
WithValues_flagged(st, cat, vals) ==
    [st EXCEPT !.row = [@ EXCEPT ![cat] = @ \o vals],
               !.file = TRUE, !.has = TRUE]

WithValues(st, cat, vals) ==
    IF vals # <<>>
    THEN [st EXCEPT !.row = [@ EXCEPT ![cat] = @ \o vals],
                    !.file = TRUE, !.has = TRUE]
    ELSE st

ExtractCategory(d, cat, st) ==
    LET name == found_col(d.columns, IOC_SEARCH_TERMS[cat])
        cols == {c \in 1..Len(d.columns) : d.columns[c] = name}
    IN  IF name = NoColumn THEN st
        ELSE IF Cardinality(cols) > 1 THEN [st EXCEPT !.raised = TRUE]
        ELSE WithValues(st, cat, ColumnValues(d, CHOOSE c \in cols : TRUE))

\* line 116: the categories in dictionary order, until one raises
RECURSIVE ExtractFrom(_, _, _)
ExtractFrom(d, k, st) ==
    IF k > Len(Categories) \/ st.raised THEN st
    ELSE ExtractFrom(d, k + 1, ExtractCategory(d, Categories[k], st))

\* DataFrame.empty: no rows or no columns
Empty(d) == Len(d.rows) = 0 \/ Len(d.columns) = 0

\* lines 108-112 for one sheet.  A sheet is [parse_ok, df]: read_excel raises
\* on a sheet it cannot parse.
\* lines 113-127: the column names normalized again, then the categories
ExtractSheet(found, st) ==
    IF found = None THEN st
    ELSE ExtractFrom([found EXCEPT !.columns = NormalizeAll(@)], 1, st)

ProcessSheet(sheet, st) ==
    IF ~sheet.parse_ok THEN [st EXCEPT !.raised = TRUE]
    ELSE IF Empty(sheet.df) THEN st
    ELSE ExtractSheet(find_header_row(sheet.df), st)

\* line 107: the sheets in order; an exception leaves the loop
RECURSIVE ProcessSheets(_, _, _)
ProcessSheets(sheets, k, st) ==
    IF k > Len(sheets) \/ st.raised THEN st
    ELSE ProcessSheets(sheets, k + 1, ProcessSheet(sheets[k], st))

EndsWith(s, suffix) ==
    /\ Len(suffix) <= Len(s)
    /\ SubSeq(s, Len(s) - Len(suffix) + 1, Len(s)) = suffix

\* line 95
IsSpreadsheet(fname) ==
    \/ EndsWith(Lower(fname), <<".","x","l","s","x">>)
    \/ EndsWith(Lower(fname), <<".","x","l","s">>)

\* lines 91-136 for one attachment [fname, save_ok, open_ok, sheets]:
\* SaveAsFile and pd.ExcelFile raise when they fail, and whatever is raised
\* inside the try is caught at line 135.  What was already appended to
\* email_row stays.
\* the attachment loop without the try of lines 91/135: a failure propagates
ProcessAttachment_uncaught(att, st) ==
    IF ~IsSpreadsheet(att.fname) THEN st
    ELSE IF ~att.save_ok \/ ~att.open_ok THEN [st EXCEPT !.raised = TRUE]
    ELSE ProcessSheets(att.sheets, 1, st)

ProcessAttachment(att, st) ==
    LET st0 == [st EXCEPT !.file = FALSE, !.raised = FALSE]
        done ==
            IF ~IsSpreadsheet(att.fname) THEN st0
            ELSE IF ~att.save_ok \/ ~att.open_ok THEN st0
            ELSE ProcessSheets(att.sheets, 1, st0)
    IN  [done EXCEPT !.raised = FALSE]

EmptyRow == [md5 |-> <<>>, sha1 |-> <<>>, sha256 |-> <<>>, ip |-> <<>>]

\* lines 83-88
FreshState == [row |-> EmptyRow, has |-> FALSE, file |-> FALSE, raised |-> FALSE]

\* line 90: the attachments 1..count in order
RECURSIVE ProcessAttachments(_, _, _)
ProcessAttachments(atts, k, st) ==
    IF k > Len(atts) THEN st
    ELSE ProcessAttachments(atts, k + 1, ProcessAttachment(atts[k], st))

---------------------------------------------------------------------------
(* Finalization, lines 138-145 *)

\* sorted(list(set(values))): the distinct values in increasing str order
RECURSIVE SortSet(_)
SortSet(S) ==
    IF S = {} THEN <<>>
    ELSE LET m == CHOOSE x \in S : \A y \in S : x = y \/ StrLess(x, y)
         IN  <<m>> \o SortSet(S \ {m})

\* the distinct values in order of first occurrence, never sorted
RECURSIVE FirstOccurrences(_)
FirstOccurrences(values) ==
    IF values = <<>> THEN <<>>
    ELSE LET front == FirstOccurrences(SubSeq(values, 1, Len(values) - 1))
             last == values[Len(values)]
         IN  IF last \in Range(front) THEN front ELSE Append(front, last)

unique_vals(values) == SortSet(Range(values))

\* "\n".join(parts)
RECURSIVE Join(_)
Join(parts) ==
    IF Len(parts) = 0 THEN <<>>
    ELSE IF Len(parts) = 1 THEN parts[1]
    ELSE parts[1] \o <<"\n">> \o Join(Tail(parts))

\* lines 139-143; Date is str(msg_dt.date())
Finalize(subject, date, row) ==
    [Subject |-> subject, Date |-> date,
     md5    |-> Join(unique_vals(row.md5)),
     sha1   |-> Join(unique_vals(row.sha1)),
     sha256 |-> Join(unique_vals(row.sha256)),
     ip     |-> Join(unique_vals(row.ip))]

---------------------------------------------------------------------------
(* Inputs *)

BoundedSeq(S, n) == UNION {[1..k -> S] : k \in 0..n}

t_md5      == <<"m","d","5">>
t_md_5     == <<"m","d","-","5">>
t_MD5_pad  == <<" ","M","D","5"," ">>
t_hash     == <<"h","a","s","h">>
t_SHA1     == <<"S","H","A","1">>
t_IP       == <<"I","P"," ","A","d","d","r","e","s","s">>
t_note     == <<"N","o","t","e">>
t_unnamed0 == <<"U","n","n","a","m","e","d",":"," ","0">>
t_unnamed1 == <<"U","n","n","a","m","e","d",":"," ","1">>
v_a        == <<"a">>
v_ab       == <<"a","b">>
v_B        == <<"B">>
v_C        == <<"C">>
v_addr     == <<"1",".","2",".","3">>

\* header cells a sheet may carry
HeaderCells == {t_md5, t_md_5, t_MD5_pad, t_hash, t_SHA1, t_IP}

\* three data rows of a two-column sheet; the columns hold different values
DataRows == << <<v_B, v_C>>, <<NaN, v_a>>, <<v_a, v_ab>> >>

\* rows that are not a header: a title line, a blank cell
FillRow == <<NaN, t_note>>

\* rows that may follow the filler: two header rows, two data rows
TailRows == { <<t_MD5_pad, t_note>>, <<t_SHA1, t_md5>>, <<v_B, v_C>>, <<NaN, v_a>> }

\* number of filler rows above the candidate header rows
MaxFill == 11
\* number of rows after the filler
MaxTail == 3

Fill(n) == [i \in 1..n |-> FillRow]

\* Sheets as read_excel returns them.  With the header on the first line the
\* decoder names the columns after it (two equal names are told apart by the
\* decoder, so the raw names differ); with a title above it the decoder's
\* names bear no keyword and the header is a data row.
SheetsHeaderFirst ==
    {d \in {[columns |-> <<a, b>>, rows |-> r] :
                a \in HeaderCells, b \in HeaderCells, r \in {DataRows, <<>>}} :
        d.columns[1] # d.columns[2]}

SheetsHeaderBelow ==
    {[columns |-> <<t_unnamed0, t_unnamed1>>, rows |-> Fill(n) \o t] :
        n \in 0..MaxFill, t \in BoundedSeq(TailRows, MaxTail)}

---------------------------------------------------------------------------
(* One sheet on its own: lines 108-127 from a fresh accumulator *)

InitSheet ==
    /\ pc = "sheet"
    /\ df \in SheetsHeaderFirst \cup SheetsHeaderBelow
    /\ df_clean = None
    /\ email_row = EmptyRow /\ email_has_data = FALSE /\ final_row = None
    /\ message = None /\ att_i = 0 /\ escaped = FALSE
    /\ start_date = 0 /\ end_date = 0
    /\ messages = <<>> /\ msg_i = 0 /\ visited = {} /\ att_read = {}
    /\ new_data = <<>> /\ src_of = <<>>
    /\ master = [exists |-> FALSE, rows |-> <<>>]
    /\ master_before = [exists |-> FALSE, rows |-> <<>>]
    /\ outcome = "none" /\ runs = 0

\* line 109
SkipEmpty ==
    /\ pc = "sheet" /\ Empty(df)
    /\ pc' = "sheet_done"
    /\ UNCHANGED <<df, df_clean, email_row, email_has_data, final_row, message,
                   att_i, escaped, start_date, end_date, messages, msg_i,
                   visited, att_read, new_data, src_of, master, master_before,
                   outcome, runs>>

\* line 111
LocateHeader ==
    /\ pc = "sheet" /\ ~Empty(df)
    /\ df_clean' = find_header_row(df)
    /\ pc' = "extract"
    /\ UNCHANGED <<df, email_row, email_has_data, final_row, message,
                   att_i, escaped, start_date, end_date, messages, msg_i,
                   visited, att_read, new_data, src_of, master, master_before,
                   outcome, runs>>

\* lines 113-127
ExtractValues ==
    /\ pc = "extract"
    /\ LET st == ExtractSheet(df_clean, FreshState)
       IN  /\ email_row' = st.row
           /\ email_has_data' = st.has
           /\ escaped' = st.raised
    /\ pc' = "sheet_done"
    /\ UNCHANGED <<df, df_clean, final_row, message, att_i, start_date,
                   end_date, messages, msg_i, visited, att_read, new_data,
                   src_of, master, master_before, outcome, runs>>

NextSheet == SkipEmpty \/ LocateHeader \/ ExtractValues

SpecSheet == InitSheet /\ [][NextSheet]_vars

---------------------------------------------------------------------------
(* Properties of one sheet *)

\* 0-based indices of the data rows with a cell that, lowercased and
\* trimmed, contains a catalog keyword
KeywordRows(d) ==
    {i \in 0..(Len(d.rows) - 1) :
        \E j \in 1..Len(d.rows[i + 1]) : \E k \in all_keywords :
            Contains(k, Normalize(d.rows[i + 1][j]))}

NamedByDecoder(d) ==
    \E j \in 1..Len(d.columns) : \E k \in all_keywords :
        Contains(k, Normalize(d.columns[j]))

Least(S) == CHOOSE x \in S : \A y \in S : x <= y

\* C1: a sheet whose decoder-assigned names bear a keyword is returned
\* unchanged; otherwise, with k the first keyword-bearing row among rows
\* 0..9, the column names are row k's normalized cells and the data rows are
\* exactly the rows after row k, in order; with no such row among rows 0..9
\* nothing is returned and the sheet contributes no values.
C1_HeaderRow ==
    (pc \in {"extract", "sheet_done"} /\ ~Empty(df)) =>
        LET early == {i \in KeywordRows(df) : i <= 9}
        IN  IF NamedByDecoder(df) THEN df_clean = df
            ELSE IF early # {}
            THEN LET k == Least(early)
                 IN  /\ df_clean # None
                     /\ df_clean.columns =
                          [j \in 1..Len(df.rows[k + 1]) |-> Normalize(df.rows[k + 1][j])]
                     /\ Len(df_clean.rows) = Len(df.rows) - (k + 1)
                     /\ \A j \in 1..Len(df_clean.rows) :
                          df_clean.rows[j] = df.rows[k + 1 + j]
            ELSE /\ df_clean = None
                 /\ pc = "sheet_done" => (email_row = EmptyRow /\ ~email_has_data)

\* C1 witness: the header is a data row below the first one, a second
\* keyword-bearing row follows it, and the rows after the first were kept
C1_Witness ==
    /\ pc = "sheet_done" /\ ~NamedByDecoder(df)
    /\ Cardinality(KeywordRows(df)) >= 2
    /\ Least(KeywordRows(df)) \in 1..9
    /\ df_clean # None
    /\ Len(df_clean.rows) = Len(df.rows) - (Least(KeywordRows(df)) + 1)
    /\ email_has_data

\* the column of `columns` that the claim calls selected for a category:
\* the left-most one containing the first keyword any column contains
\* (0: none)
SelectedColumn(columns, keywords) ==
    LET m == {k \in 1..Len(keywords) :
                \E j \in 1..Len(columns) : Contains(keywords[k], columns[j])}
    IN  IF m = {} THEN 0
        ELSE Least({j \in 1..Len(columns) : Contains(keywords[Least(m)], columns[j])})

\* C2 (as claimed): for every header list and every category, the values the
\* sheet contributes are those of the left-most column containing the first
\* keyword any column contains, and none when no keyword occurs.
C2_KeywordPriority ==
    (pc = "sheet_done" /\ df_clean # None) =>
        \A c \in 1..Len(Categories) :
            LET cols == NormalizeAll(df_clean.columns)
                j == SelectedColumn(cols, IOC_SEARCH_TERMS[Categories[c]])
            IN  IF j = 0 THEN email_row[Categories[c]] = <<>>
                ELSE email_row[Categories[c]] = ColumnValues(df_clean, j)

\* C2 restricted to sheets whose normalized column names are pairwise
\* different
C2_DistinctNames ==
    (pc = "sheet_done" /\ df_clean # None) =>
        LET cols == NormalizeAll(df_clean.columns)
        IN  (\A i, j \in 1..Len(cols) : cols[i] = cols[j] => i = j) =>
                \A c \in 1..Len(Categories) :
                    LET j == SelectedColumn(cols, IOC_SEARCH_TERMS[Categories[c]])
                    IN  IF j = 0 THEN email_row[Categories[c]] = <<>>
                        ELSE email_row[Categories[c]] = ColumnValues(df_clean, j)

---------------------------------------------------------------------------
(* One message on its own: the attachment loop and the finalization,       *)
(* lines 80-145                                                            *)

Sheet(columns, rows) == [parse_ok |-> TRUE, df |-> [columns |-> columns, rows |-> rows]]

\* md5 under a padded upper-case header: B, a, a
S_md5 == Sheet(<<t_MD5_pad, t_note>>, << <<v_B, v_C>>, <<v_a, NaN>>, <<v_a, v_C>> >>)
\* the header on the second data row: ip 1.2
S_ip == Sheet(<<t_unnamed0, t_unnamed1>>, << FillRow, <<t_IP, t_hash>>, <<v_addr, v_a>> >>)
\* sha1 C and md5 ab; the md5 column is found by the first keyword, md-5
S_sha == Sheet(<<t_SHA1, t_md_5>>, << <<v_C, v_ab>> >>)
\* no keyword anywhere
S_nohdr == Sheet(<<t_hash, t_note>>, << <<v_a, v_B>> >>)
\* a matched column without a value
S_emptycol == Sheet(<<t_md5, t_note>>, << <<NaN, v_a>> >>)
\* two columns whose names are equal once normalized
S_dup == Sheet(<<t_md5, t_MD5_pad>>, DataRows)
\* no data rows
S_empty == Sheet(<<t_md5, t_note>>, <<>>)
\* read_excel raises on this sheet
S_bad == [parse_ok |-> FALSE, df |-> [columns |-> <<>>, rows |-> <<>>]]

f_xlsx == <<"a",".","x","l","s","x">>
f_XLS  == <<"B",".","X","L","S">>
f_txt  == <<"n",".","t","x","t">>

Attachment(fname, save_ok, open_ok, sheets) ==
    [fname |-> fname, save_ok |-> save_ok, open_ok |-> open_ok, sheets |-> sheets]

A_txt      == Attachment(f_txt, TRUE, TRUE, <<S_md5>>)
A_unsaved  == Attachment(f_xlsx, FALSE, TRUE, <<S_md5>>)
A_corrupt  == Attachment(f_XLS, TRUE, FALSE, <<>>)
A_md5      == Attachment(f_xlsx, TRUE, TRUE, <<S_md5>>)
A_ip       == Attachment(f_XLS, TRUE, TRUE, <<S_ip>>)
A_two      == Attachment(f_xlsx, TRUE, TRUE, <<S_empty, S_sha, S_ip>>)
A_bad_ip   == Attachment(f_xlsx, TRUE, TRUE, <<S_bad, S_ip>>)
A_md5_bad  == Attachment(f_xlsx, TRUE, TRUE, <<S_md5, S_bad>>)
A_dup_ip   == Attachment(f_xlsx, TRUE, TRUE, <<S_dup, S_ip>>)
A_nohdr    == Attachment(f_xlsx, TRUE, TRUE, <<S_nohdr>>)
A_emptycol == Attachment(f_xlsx, TRUE, TRUE, <<S_emptycol, S_nohdr>>)

AttPool == {A_txt, A_unsaved, A_corrupt, A_md5, A_ip, A_two, A_bad_ip,
            A_md5_bad, A_dup_ip, A_nohdr, A_emptycol}

\* attachments of one message
MaxAtts == 2

s_ioc == <<"i","o","c">>
s_NA  == <<"N","A">>

Digits == <<"1","2","3","4","5","6","7","8","9">>

\* str(date) of day d of the modelled month: YYYY-MM-DD
DateText(d) == <<"2","0","2","5","-","0","1","-","0", Digits[d]>>

InitMsg ==
    /\ pc = "attachments"
    /\ message \in {[subject |-> s_ioc, day |-> 1, atts |-> a] :
                        a \in BoundedSeq(AttPool, MaxAtts)}
    /\ att_i = 1
    /\ df = None /\ df_clean = None
    /\ email_row = EmptyRow /\ email_has_data = FALSE /\ final_row = None
    /\ escaped = FALSE
    /\ start_date = 0 /\ end_date = 0
    /\ messages = <<>> /\ msg_i = 0 /\ visited = {} /\ att_read = {}
    /\ new_data = <<>> /\ src_of = <<>>
    /\ master = [exists |-> FALSE, rows |-> <<>>]
    /\ master_before = [exists |-> FALSE, rows |-> <<>>]
    /\ outcome = "none" /\ runs = 0

\* one pass of the loop of line 90
ReadAttachment ==
    /\ pc = "attachments" /\ att_i <= Len(message.atts) /\ ~escaped
    /\ LET st == ProcessAttachment(message.atts[att_i],
                    [row |-> email_row, has |-> email_has_data,
                     file |-> FALSE, raised |-> escaped])
       IN  /\ email_row' = st.row
           /\ email_has_data' = st.has
           /\ escaped' = st.raised
    /\ att_i' = att_i + 1
    /\ UNCHANGED <<pc, df, df_clean, final_row, message, start_date, end_date,
                   messages, msg_i, visited, att_read, new_data, src_of,
                   master, master_before, outcome, runs>>

\* lines 138-145
FinalizeMessage ==
    /\ pc = "attachments" /\ att_i > Len(message.atts) /\ email_has_data
    /\ final_row' = Finalize(message.subject, DateText(message.day), email_row)
    /\ pc' = "msg_done"
    /\ UNCHANGED <<df, df_clean, email_row, email_has_data, message, att_i,
                   escaped, start_date, end_date, messages, msg_i, visited,
                   att_read, new_data, src_of, master, master_before, outcome,
                   runs>>

\* line 138 with email_has_data False (and line 81): no record
DropMessage ==
    /\ pc = "attachments" /\ att_i > Len(message.atts) /\ ~email_has_data
    /\ pc' = "msg_done"
    /\ UNCHANGED <<df, df_clean, email_row, email_has_data, final_row, message,
                   att_i, escaped, start_date, end_date, messages, msg_i,
                   visited, att_read, new_data, src_of, master, master_before,
                   outcome, runs>>

NextMsg == ReadAttachment \/ FinalizeMessage \/ DropMessage

SpecMsg == InitMsg /\ [][NextMsg]_vars

---------------------------------------------------------------------------
(* The finalization on its own, from accumulators of every shape *)

ValuePool == {v_a, v_ab, v_B, v_C}

\* values collected for one category
MaxVals == 4

InitFinal ==
    /\ pc = "attachments"
    /\ message = [subject |-> s_ioc, day |-> 1, atts |-> <<A_md5>>]
    /\ att_i = 2
    /\ \E m \in BoundedSeq(ValuePool, MaxVals), i \in {<<>>, <<v_addr, v_addr>>} :
          /\ email_row = [EmptyRow EXCEPT !.md5 = m, !.ip = i]
          /\ email_has_data = (m # <<>> \/ i # <<>>)
    /\ df = None /\ df_clean = None
    /\ final_row = None
    /\ escaped = FALSE
    /\ start_date = 0 /\ end_date = 0
    /\ messages = <<>> /\ msg_i = 0 /\ visited = {} /\ att_read = {}
    /\ new_data = <<>> /\ src_of = <<>>
    /\ master = [exists |-> FALSE, rows |-> <<>>]
    /\ master_before = [exists |-> FALSE, rows |-> <<>>]
    /\ outcome = "none" /\ runs = 0

NextFinal == FinalizeMessage \/ DropMessage

SpecFinal == InitFinal /\ [][NextFinal]_vars

---------------------------------------------------------------------------
(* Properties of one message *)

\* the entries of a joined field: str.split("\n")
RECURSIVE Split(_)
Split(s) ==
    LET breaks == {i \in 1..Len(s) : s[i] = "\n"}
    IN  IF breaks = {} THEN <<s>>
        ELSE <<SubSeq(s, 1, Least(breaks) - 1)>>
                \o Split(SubSeq(s, Least(breaks) + 1, Len(s)))

Entries(row, cat) ==
    IF row = None \/ row[cat] = <<>> THEN {} ELSE Range(Split(row[cat]))

CategorySet == {Categories[i] : i \in 1..Len(Categories)}

\* C3 (amended): every field of a produced record holds the distinct
\* collected values, each once, in increasing code-point order, joined by the
\* separator; a category without values has an empty field.  For B, a, a, C
\* the entries in order are B, C, a.
C3_Finalized ==
    (pc = "msg_done" /\ final_row # None) =>
        /\ \A cat \in CategorySet :
            IF email_row[cat] = <<>> THEN final_row[cat] = <<>>
            ELSE LET e == Split(final_row[cat])
                 IN  /\ Range(e) = Range(email_row[cat])
                     /\ \A i, j \in 1..Len(e) : i < j => StrLess(e[i], e[j])
        /\ email_row.md5 = <<v_B, v_a, v_a, v_C>> =>
                Split(final_row.md5) = <<v_B, v_C, v_a>>

\* C3 witness: the collected values B, a, a, C have been finalized
C3_Witness ==
    /\ pc = "msg_done" /\ final_row # None
    /\ email_row.md5 = <<v_B, v_a, v_a, v_C>>
    /\ Len(Split(final_row.md5)) = 3

\* C3 (as claimed): for B, a, a, C the entries in order are a, B, C
C3_ExampleOrder ==
    (pc = "msg_done" /\ final_row # None /\ email_row.md5 = <<v_B, v_a, v_a, v_C>>) =>
        Split(final_row.md5) = <<v_a, v_B, v_C>>

\* an attachment that cannot be staged or decoded
Failing(att) ==
    /\ IsSpreadsheet(att.fname)
    /\ \/ ~att.save_ok
       \/ ~att.open_ok
       \/ \E k \in 1..Len(att.sheets) : ~att.sheets[k].parse_ok

\* an attachment that is staged and decoded
Valid(att) ==
    /\ IsSpreadsheet(att.fname) /\ att.save_ok /\ att.open_ok
    /\ \A k \in 1..Len(att.sheets) : att.sheets[k].parse_ok

\* the values the sheets of a valid attachment yield when read on their own
OwnValues(att) == ProcessSheets(att.sheets, 1, FreshState).row

\* C7: a failing attachment is skipped: the failure does not leave the
\* attachment loop, and in a message with a failing attachment the values of
\* every valid attachment, before or after it, are in the message's record.
C7_AttachmentIsolation ==
    /\ ~escaped
    /\ (pc = "msg_done" /\ message # None) =>
        \A a \in 1..Len(message.atts) :
            Failing(message.atts[a]) =>
                \A b \in 1..Len(message.atts) :
                    Valid(message.atts[b]) =>
                        \A cat \in CategorySet :
                            Range(OwnValues(message.atts[b])[cat])
                                \subseteq Entries(final_row, cat)

\* C7 witness: the first attachment failed and the values of the second are
\* in the record
C7_Witness ==
    /\ pc = "msg_done" /\ message # None
    /\ Len(message.atts) = 2
    /\ Failing(message.atts[1]) /\ Valid(message.atts[2])
    /\ OwnValues(message.atts[2]).md5 # <<>>
    /\ Range(OwnValues(message.atts[2]).md5) \subseteq Entries(final_row, "md5")

\* C8 (as claimed): when a sheet of an attachment cannot be parsed, the values
\* of every other sheet of that attachment, the later ones included, are in
\* the message's record.
C8_SheetIsolation ==
    (pc = "msg_done" /\ message # None) =>
        \A a \in 1..Len(message.atts) :
            LET att == message.atts[a]
            IN  (/\ IsSpreadsheet(att.fname) /\ att.save_ok /\ att.open_ok
                 /\ \E k \in 1..Len(att.sheets) : ~att.sheets[k].parse_ok) =>
                    \A k \in 1..Len(att.sheets) :
                        att.sheets[k].parse_ok =>
                            \A cat \in CategorySet :
                                Range(ProcessSheet(att.sheets[k], FreshState).row[cat])
                                    \subseteq Entries(final_row, cat)

---------------------------------------------------------------------------
(* The run: process_cti_formatted, lines 46-186 *)

\* olMail, line 71
MailItemClass == 43
\* a meeting request, one of the other item classes a folder holds
OtherItemClass == MailItemClass + 10

\* dt_time.min and dt_time.max (lines 60-61) on the model's clock
TimeMin == 0
TimeMax == 1

\* days of the modelled month
MaxDay == 2
\* messages in the folder
MaxMsgs == 2
\* runs of the script over the same folder
MaxRuns == 2

\* datetime order
DtLess(a, b) == a.day < b.day \/ (a.day = b.day /\ a.tod < b.tod)

Msg(class, time_ok, subject, atts) ==
    [class |-> class, time_ok |-> time_ok, subject |-> subject, atts |-> atts]

\* what a message may be: Class, whether ReceivedTime can be read (line 74),
\* Subject and attachments
MsgShapes ==
    { Msg(MailItemClass, TRUE, s_ioc, <<>>),
      Msg(MailItemClass, TRUE, s_ioc, <<A_txt>>),
      Msg(MailItemClass, TRUE, s_ioc, <<A_nohdr>>),
      Msg(MailItemClass, TRUE, s_ioc, <<A_emptycol>>),
      Msg(MailItemClass, TRUE, s_ioc, <<A_md5>>),
      Msg(MailItemClass, TRUE, s_NA, <<A_corrupt, A_ip>>),
      Msg(OtherItemClass, TRUE, s_ioc, <<A_md5>>),
      Msg(MailItemClass, FALSE, s_ioc, <<A_md5>>) }

MsgPool ==
    {[class |-> m.class, time_ok |-> m.time_ok, subject |-> m.subject,
      atts |-> m.atts, day |-> d, tod |-> t] :
        m \in MsgShapes, d \in 1..MaxDay, t \in TimeMin..TimeMax}

\* line 67: the items sorted by ReceivedTime, descending
Mailboxes ==
    {ms \in BoundedSeq(MsgPool, MaxMsgs) :
        \A i \in 1..(Len(ms) - 1) : ~DtLess(ms[i], ms[i + 1])}

\* what the user may type at a prompt
DateInputs ==
    {DateText(d) : d \in 1..MaxDay}
        \cup {<<" ">> \o DateText(1) \o <<" ">>,
              <<"2","0","2","5","-","1","-","1">>,
              <<"2","0","2","5","-","0","1","-", Digits[MaxDay]>>,
              <<"2","0","2","5","-","1","-"," ", Digits[MaxDay]>>,
              <<"2","0","2","5","-"," ","1","-","0","1">>,
              <<"2","0","2","5","-","0","1","-","0","1","1">>,
              <<"2","0","2","5","-","0","2","-","3","0">>,
              <<"0","0","0","0","-","0","1","-","0","1">>,
              <<"1","/","2">>}

\* the characters \d matches, in the order of their values
DigitChars == <<"0","1","2","3","4","5","6","7","8","9">>

IsDigit(c) == \E i \in 1..10 : DigitChars[i] = c

NonZeroDigit(c) == IsDigit(c) /\ c # "0"

DigitVal(c) == (CHOOSE i \in 1..10 : DigitChars[i] = c) - 1

\* int() of a text of digits
RECURSIVE Number(_)
Number(t) ==
    IF t = <<>> THEN 0
    ELSE 10 * Number(SubSeq(t, 1, Len(t) - 1)) + DigitVal(t[Len(t)])

\* what %m matches: 1[0-2] | 0[1-9] | [1-9]
MonthToken(t) ==
    \/ Len(t) = 2 /\ t[1] = "1" /\ t[2] \in {"0", "1", "2"}
    \/ Len(t) = 2 /\ t[1] = "0" /\ NonZeroDigit(t[2])
    \/ Len(t) = 1 /\ NonZeroDigit(t[1])

\* what %d matches as two digits: 3[01] | [12]\d | 0[1-9]
TwoDigitDay(t) ==
    /\ Len(t) = 2
    /\ \/ t[1] = "3" /\ t[2] \in {"0", "1"}
       \/ t[1] \in {"1", "2"} /\ IsDigit(t[2])
       \/ t[1] = "0" /\ NonZeroDigit(t[2])

\* the last alternative of %d: a blank and one digit
BlankDay(t) == Len(t) = 2 /\ t[1] = " " /\ NonZeroDigit(t[2])

IsLeap(y) == y % 4 = 0 /\ (y % 100 # 0 \/ y % 400 = 0)

DaysInMonth(y, m) ==
    IF m = 2 THEN (IF IsLeap(y) THEN 29 ELSE 28)
    ELSE IF m \in {4, 6, 9, 11} THEN 30 ELSE 31

RECURSIVE DaysBeforeMonth(_, _)
DaysBeforeMonth(y, m) ==
    IF m = 1 THEN 0 ELSE DaysBeforeMonth(y, m - 1) + DaysInMonth(y, m - 1)

\* date(y, m, d).toordinal(): 1 for 0001-01-01
ToOrdinal(y, m, d) ==
    (y - 1) * 365 + ((y - 1) \div 4) - ((y - 1) \div 100) + ((y - 1) \div 400)
        + DaysBeforeMonth(y, m) + d

\* datetime.strptime(s, "%Y-%m-%d").date() as its ordinal; 0 when it raises
\* ValueError: s does not match \d\d\d\d-%m-%d, text remains after the day,
\* or the numbers are not a date (year 0, day 30 of February)
strptime(s) ==
    LET n  == Len(s)
        head == n >= 5 /\ (\A i \in 1..4 : IsDigit(s[i])) /\ s[5] = "-"
        ml == IF n >= 8 /\ MonthToken(SubSeq(s, 6, 7)) /\ s[8] = "-" THEN 2
              ELSE IF n >= 7 /\ MonthToken(<<s[6]>>) /\ s[7] = "-" THEN 1
              ELSE 0
        p  == 7 + ml
        dl == IF n >= p + 1 /\ TwoDigitDay(SubSeq(s, p, p + 1)) THEN 2
              ELSE IF n >= p /\ NonZeroDigit(s[p]) THEN 1
              ELSE IF n >= p + 1 /\ BlankDay(SubSeq(s, p, p + 1)) THEN 2
              ELSE 0
        y  == Number(SubSeq(s, 1, 4))
        m  == Number(SubSeq(s, 6, 5 + ml))
        d  == Number(<<s[p + dl - 1]>>) + (IF dl = 2 /\ s[p] # " "
                                           THEN 10 * DigitVal(s[p]) ELSE 0)
    IN  IF /\ head /\ ml > 0 /\ dl > 0
           /\ p + dl - 1 = n
           /\ y >= 1
           /\ d <= DaysInMonth(y, m)
        THEN ToOrdinal(y, m, d)
        ELSE 0

\* line 24: datetime.strptime(input().strip(), "%Y-%m-%d").date(), as the
\* date's ordinal; 0 when strptime raises ValueError
ParseDate(text) == strptime(Strip(text))

\* a date taken as the day of the month of the messages (2024-12-31 is day 0)
DayOf(ordinal) == ordinal - ToOrdinal(2024, 12, 31)

Absent == [exists |-> FALSE, rows |-> <<>>]

Init ==
    /\ pc = "connect"
    /\ messages \in Mailboxes
    /\ master = Absent /\ master_before = Absent
    /\ runs = 1
    /\ df = None /\ df_clean = None
    /\ email_row = EmptyRow /\ email_has_data = FALSE /\ final_row = None
    /\ message = None /\ att_i = 0 /\ escaped = FALSE
    /\ start_date = 0 /\ end_date = 0
    /\ msg_i = 0 /\ visited = {} /\ att_read = {}
    /\ new_data = <<>> /\ src_of = <<>>
    /\ outcome = "none"

\* lines 49-52
Connect ==
    /\ pc = "connect"
    /\ pc' = "ask_start"
    /\ UNCHANGED <<df, df_clean, email_row, email_has_data, final_row, message,
                   att_i, escaped, start_date, end_date, messages, msg_i,
                   visited, att_read, new_data, src_of, master, master_before,
                   outcome, runs>>

\* lines 53-55: Outlook or the folder cannot be reached
ConnectFails ==
    /\ pc = "connect"
    /\ pc' = "exit" /\ outcome' = "connect_error"
    /\ UNCHANGED <<df, df_clean, email_row, email_has_data, final_row, message,
                   att_i, escaped, start_date, end_date, messages, msg_i,
                   visited, att_read, new_data, src_of, master, master_before,
                   runs>>

\* line 57: get_valid_date prompts again until the text parses
AskStart ==
    /\ pc = "ask_start"
    /\ \E text \in DateInputs :
          IF ParseDate(text) = 0
          THEN UNCHANGED <<pc, start_date>>
          ELSE start_date' = DayOf(ParseDate(text)) /\ pc' = "ask_end"
    /\ UNCHANGED <<df, df_clean, email_row, email_has_data, final_row, message,
                   att_i, escaped, end_date, messages, msg_i, visited,
                   att_read, new_data, src_of, master, master_before, outcome,
                   runs>>

\* lines 58-67
AskEnd ==
    /\ pc = "ask_end"
    /\ \E text \in DateInputs :
          IF ParseDate(text) = 0
          THEN UNCHANGED <<pc, end_date, msg_i>>
          ELSE end_date' = DayOf(ParseDate(text)) /\ pc' = "scan" /\ msg_i' = 1
    /\ UNCHANGED <<df, df_clean, email_row, email_has_data, final_row, message,
                   att_i, escaped, start_date, messages, visited, att_read,
                   new_data, src_of, master, master_before, outcome, runs>>

\* lines 60-61
start_dt == [day |-> start_date, tod |-> TimeMin]
end_dt   == [day |-> end_date, tod |-> TimeMax]

\* lines 71-81 with every older message skipped instead of ending the loop
Decide_nobreak(m) ==
    IF m.class # MailItemClass THEN "continue"
    ELSE IF ~m.time_ok THEN "continue"
    ELSE IF DtLess(m, start_dt) THEN "continue"
    ELSE IF DtLess(end_dt, m) THEN "continue"
    ELSE IF Len(m.atts) = 0 THEN "continue"
    ELSE "read"

\* lines 71-81: what the loop does with message m
Decide(m) ==
    IF m.class # MailItemClass THEN "continue"
    ELSE IF ~m.time_ok THEN "continue"
    ELSE IF DtLess(m, start_dt) THEN "break"
    ELSE IF DtLess(end_dt, m) THEN "continue"
    ELSE IF Len(m.atts) = 0 THEN "continue"
    ELSE "read"

\* lines 83-145: the record of message m, or None
ProcessMessage(m) ==
    LET st == ProcessAttachments(m.atts, 1, FreshState)
    IN  IF st.has THEN Finalize(m.subject, DateText(m.day), st.row) ELSE None

\* one pass of the loop of line 70
ScanMessage ==
    /\ pc = "scan" /\ msg_i <= Len(messages)
    /\ visited' = visited \cup {msg_i}
    /\ LET m == messages[msg_i]
           d == Decide(m)
           r == ProcessMessage(m)
       IN  /\ IF d = "break"
              THEN pc' = "persist" /\ msg_i' = msg_i
              ELSE pc' = pc /\ msg_i' = msg_i + 1
           /\ IF d = "read"
              THEN /\ att_read' = att_read \cup {msg_i}
                   /\ IF r # None
                      THEN /\ new_data' = Append(new_data, r)
                           /\ src_of' = Append(src_of, msg_i)
                      ELSE UNCHANGED <<new_data, src_of>>
              ELSE UNCHANGED <<att_read, new_data, src_of>>
    /\ UNCHANGED <<df, df_clean, email_row, email_has_data, final_row, message,
                   att_i, escaped, start_date, end_date, messages, master,
                   master_before, outcome, runs>>

\* the loop of line 70 runs out of messages
ScanEnd ==
    /\ pc = "scan" /\ msg_i > Len(messages)
    /\ pc' = "persist"
    /\ UNCHANGED <<df, df_clean, email_row, email_has_data, final_row, message,
                   att_i, escaped, start_date, end_date, messages, msg_i,
                   visited, att_read, new_data, src_of, master, master_before,
                   outcome, runs>>

---------------------------------------------------------------------------
(* The master workbook, lines 147-184.  A row is a record of six cells; a   *)
(* cell is a text or blank (NaN).  The texts of the model do not parse as   *)
(* numbers.                                                                *)

\* the strings read_excel takes for missing values by default
\* (keep_default_na), those spelled with the model's characters
NAStrings ==
    { <<"N","A">>, <<"N","/","A">>, <<"n","/","a">>, <<"N","U","L","L">>,
      <<"N","a","N">>, <<"N","o","n","e">>, <<"n","a","n">>, <<"n","u","l","l">>,
      <<"-","N","a","N">>, <<"-","n","a","n">> }

\* to_excel: a missing value and an empty string leave the cell blank
WriteCell(v) == IF v = NaN \/ v = <<>> THEN NaN ELSE v

\* read_excel: a blank cell and a text among NAStrings are missing values
ReadCell(c) == IF c = NaN \/ c \in NAStrings THEN NaN ELSE c

to_excel(frame) ==
    [i \in 1..Len(frame) |-> [k \in DOMAIN frame[i] |-> WriteCell(frame[i][k])]]

read_excel(rows) ==
    [i \in 1..Len(rows) |-> [k \in DOMAIN rows[i] |-> ReadCell(rows[i][k])]]

\* lines 152-160: pd.concat([existing_df, pd.DataFrame(new_data)]), or the
\* new records alone when there is no workbook
final_df ==
    IF master.exists THEN read_excel(master.rows) \o new_data ELSE new_data

\* lines 183-184
NoData ==
    /\ pc = "persist" /\ new_data = <<>>
    /\ pc' = "exit" /\ outcome' = "no_data"
    /\ UNCHANGED <<df, df_clean, email_row, email_has_data, final_row, message,
                   att_i, escaped, start_date, end_date, messages, msg_i,
                   visited, att_read, new_data, src_of, master, master_before,
                   runs>>

\* lines 154-158: the workbook exists and cannot be read; the function returns
ReadExistingFails ==
    /\ pc = "persist" /\ new_data # <<>> /\ master.exists
    /\ pc' = "exit" /\ outcome' = "read_error"
    /\ UNCHANGED <<df, df_clean, email_row, email_has_data, final_row, message,
                   att_i, escaped, start_date, end_date, messages, msg_i,
                   visited, att_read, new_data, src_of, master, master_before,
                   runs>>

\* line 164 raises: the destination cannot be opened for writing (held open
\* by another program); nothing was written
SaveLocked ==
    /\ pc = "persist" /\ new_data # <<>>
    /\ pc' = "exit" /\ outcome' = "save_error"
    /\ UNCHANGED <<df, df_clean, email_row, email_has_data, final_row, message,
                   att_i, escaped, start_date, end_date, messages, msg_i,
                   visited, att_read, new_data, src_of, master, master_before,
                   runs>>

\* lines 164-182 with an exception after the writer was opened: line 164 has
\* opened MASTER_FILE for writing, and leaving the with block closes the
\* writer, which saves what was written until then: the first k rows
SaveFails ==
    /\ pc = "persist" /\ new_data # <<>>
    /\ \E k \in 0..Len(final_df) :
          master' = [exists |-> TRUE, rows |-> SubSeq(to_excel(final_df), 1, k)]
    /\ pc' = "exit" /\ outcome' = "save_error"
    /\ UNCHANGED <<df, df_clean, email_row, email_has_data, final_row, message,
                   att_i, escaped, start_date, end_date, messages, msg_i,
                   visited, att_read, new_data, src_of, master_before, runs>>

\* lines 164-180
Save ==
    /\ pc = "persist" /\ new_data # <<>>
    /\ master' = [exists |-> TRUE, rows |-> to_excel(final_df)]
    /\ pc' = "exit" /\ outcome' = "saved"
    /\ UNCHANGED <<df, df_clean, email_row, email_has_data, final_row, message,
                   att_i, escaped, start_date, end_date, messages, msg_i,
                   visited, att_read, new_data, src_of, master_before, runs>>

\* the script is started again over the same folder
Rerun ==
    /\ pc = "exit" /\ runs < MaxRuns
    /\ runs' = runs + 1
    /\ pc' = "connect"
    /\ master_before' = master
    /\ start_date' = 0 /\ end_date' = 0 /\ msg_i' = 0
    /\ visited' = {} /\ att_read' = {}
    /\ new_data' = <<>> /\ src_of' = <<>>
    /\ outcome' = "none"
    /\ UNCHANGED <<df, df_clean, email_row, email_has_data, final_row, message,
                   att_i, escaped, messages, master>>

Next ==
    \/ Connect \/ ConnectFails \/ AskStart \/ AskEnd
    \/ ScanMessage \/ ScanEnd
    \/ NoData \/ ReadExistingFails \/ SaveLocked \/ SaveFails \/ Save
    \/ Rerun

Spec == Init /\ [][Next]_vars

\* one run up to the end of the scan, lines 46-145
NextScan ==
    \/ Connect \/ ConnectFails \/ AskStart \/ AskEnd
    \/ ScanMessage \/ ScanEnd

SpecScan == Init /\ [][NextScan]_vars

---------------------------------------------------------------------------
(* Properties of the run *)

\* message i is a mail item with a readable timestamp inside the window
InWindow(i) ==
    /\ messages[i].class = MailItemClass /\ messages[i].time_ok
    /\ ~DtLess(messages[i], start_dt) /\ ~DtLess(end_dt, messages[i])

\* message i is a mail item received before the window starts
Older(i) ==
    /\ messages[i].class = MailItemClass /\ messages[i].time_ok
    /\ DtLess(messages[i], start_dt)

\* message i is a mail item received after the window ends
Later(i) ==
    /\ messages[i].class = MailItemClass /\ messages[i].time_ok
    /\ ~DtLess(messages[i], start_dt) /\ DtLess(end_dt, messages[i])

RecordsOf(i) == {j \in 1..Len(src_of) : src_of[j] = i}

\* the attachment lists of the folder's messages
AttLists == {m.atts : m \in MsgShapes}

\* some value was collected from the attachments
CollectedFrom ==
    [atts \in AttLists |->
        \E cat \in CategorySet : ProcessAttachments(atts, 1, FreshState).row[cat] # <<>>]

Collected(m) == CollectedFrom[m.atts]

\* no attachment, or none with a spreadsheet extension, or no sheet with a
\* header, or nothing but missing cells under the keyword columns
NoValuesIn ==
    [atts \in AttLists |->
        \A a \in 1..Len(atts) :
            IsSpreadsheet(atts[a].fname) =>
                \A k \in 1..Len(atts[a].sheets) :
                    LET sh == atts[a].sheets[k]
                        f == find_header_row(sh.df)
                    IN  \/ ~sh.parse_ok
                        \/ Empty(sh.df)
                        \/ f = None
                        \/ \A j \in 1..Len(f.columns) :
                              (\E kw \in all_keywords : Contains(kw, Normalize(f.columns[j])))
                                  => \A r \in 1..Len(f.rows) : f.rows[r][j] = NaN]

NoValues(m) == NoValuesIn[m.atts]

\* a record as the cells of a workbook row: an empty field is a blank cell
AsCells(r) == [k \in DOMAIN r |-> IF r[k] = <<>> THEN NaN ELSE r[k]]

\* C4 (as claimed): after a successful write the workbook holds the rows it
\* held before the run, verbatim and in order, followed by the new records
\* in processing order.
C4_Append ==
    (pc = "exit" /\ outcome = "saved") =>
        master.rows = master_before.rows \o [j \in 1..Len(new_data) |-> AsCells(new_data[j])]

\* C4 restricted to workbooks none of whose cells is a text that read_excel
\* takes for a missing value
C4_AppendWithoutNAText ==
    (/\ pc = "exit" /\ outcome = "saved"
     /\ \A i \in 1..Len(master_before.rows) :
            \A k \in DOMAIN master_before.rows[i] :
                master_before.rows[i][k] \notin NAStrings) =>
        master.rows = master_before.rows \o [j \in 1..Len(new_data) |-> AsCells(new_data[j])]

\* C5: a scanned in-window message yields one record when a value was
\* collected from its attachments and none otherwise; there are never more
\* new records than in-window messages.
C5_OneRecordPerMessage ==
    /\ \A i \in visited :
          InWindow(i) =>
              /\ Cardinality(RecordsOf(i)) = (IF Collected(messages[i]) THEN 1 ELSE 0)
              /\ NoValues(messages[i]) => RecordsOf(i) = {}
    /\ Len(new_data) = Len(src_of)
    /\ Len(new_data) <= Cardinality({i \in 1..Len(messages) : start_date # 0 /\ end_date # 0 /\ InWindow(i)})

\* C5 witness: of two scanned in-window messages with attachments one
\* yielded a record and the other, with no value under its matched column,
\* none
C5_Witness ==
    /\ pc = "persist" /\ Len(messages) = 2 /\ visited = {1, 2}
    /\ InWindow(1) /\ InWindow(2)
    /\ att_read = {1, 2}
    /\ Len(new_data) = 1
    /\ \E i \in {1, 2} : NoValues(messages[i]) /\ RecordsOf(i) = {}

\* C6: once the scan reaches a message received before the window start it
\* stops: neither that message nor a later one in the source order has its
\* attachments read or yields a record, and no later one is looked at.  A
\* message received after the window end is skipped and the scan goes on.
C6_EarlyExit ==
    \A k \in visited :
        /\ Older(k) =>
              /\ pc # "scan"
              /\ \A j \in k..Len(messages) :
                    /\ j \notin att_read
                    /\ RecordsOf(j) = {}
                    /\ j > k => j \notin visited
        /\ Later(k) =>
              /\ k \notin att_read /\ RecordsOf(k) = {}
              /\ pc = "scan" => msg_i > k
              /\ (pc # "scan" /\ k < Len(messages)) => (k + 1) \in visited

\* C6 witness: the scan stopped at a message older than the window, after a
\* record was built, with a message left behind it
C6_Witness ==
    /\ pc = "persist" /\ Len(messages) = 2
    /\ visited = {1} /\ Older(1)
    /\ messages[2].class = MailItemClass /\ Len(messages[2].atts) > 0

\* C9 (as claimed): with the start date after the end date the run aborts:
\* no message is scanned and no "no data" result is reported.
C9_WindowValidated ==
    (start_date # 0 /\ end_date # 0 /\ start_date > end_date) =>
        (pc \notin {"scan", "persist"} /\ visited = {} /\ outcome # "no_data")

\* C10 (as claimed): the workbook changes only through a successful final
\* write, made only with a new record; on every other outcome it holds
\* exactly the rows it held before the run.
C10_OnlySuccessfulWrite ==
    /\ outcome # "saved" => master.rows = master_before.rows
    /\ outcome = "saved" => (new_data # <<>> /\ pc = "exit")

\* C10 without the failure of a write under way
C10_ExceptFailedWrite ==
    /\ outcome \notin {"saved", "save_error"} => master.rows = master_before.rows
    /\ outcome = "saved" => (new_data # <<>> /\ pc = "exit")

=============================================================================
